---- MODULE Spec2Model ----
(***************************************************************************)
(* A model of the authentication flow of voba-portal: the users table,     *)
(* and the register, login, verify_email and resend_verification handlers  *)
(* with the User model functions they call.  Every handler is split at its *)
(* store round trips (each SELECT / INSERT / UPDATE is one atomic step),   *)
(* so requests handled concurrently interleave between those steps.        *)
(*                                                                         *)
(* Time is Utc::now() counted in hours; the clock moves in steps of        *)
(* TickHours.  Verification codes are 32 random alphanumeric characters:   *)
(* a generated code is taken to differ from every code generated before,   *)
(* and is modelled by the number of the draw.                              *)
(***************************************************************************)
EXTENDS Integers, Sequences, FiniteSets, TLC

\* ------------------------------------------------------------- bounds
\* Number of requests the server handles concurrently.
NProcs == 2
\* Number of verification codes generated in one behaviour.
MaxCodes == 3
\* Number of clock steps in one behaviour, and the hours of one step.
MaxTicks == 2
TickHours == 24
\* Number of announcements, contributions, photos and payments created in
\* one behaviour, all kinds together.
MaxResources == 1

Procs == 1..NProcs

\* ------------------------------------------------------------- inputs
Emails == {"a@x.com", "b@x.com"}
\* The emails of the requests that are handled concurrently.
ConcurrentEmails == {"a@x.com"}
\* The password a user registers with, and the passwords a login may try.
Passwords == {"secret1"}
LoginPasswords == {"secret1", "secret2"}
\* user_role of a RegisterRequest: absent, a recognised string, or any other.
RoleInputs == {<<>>, <<"admin">>}
AllRoleInputs ==
    {<<>>, <<"super_admin">>, <<"admin">>, <<"member">>, <<"treasurer">>, <<"owner">>}
\* email and user_role of the RegisterRequests where administrators act: one
\* user registers as an administrator, the other with no role.
AdminRegistrations == {<<"a@x.com", <<"admin">>>>, <<"b@x.com", <<>>>>}
\* email, user_role and is_active of the RegisterRequests where an account
\* waits for its activation: an administrator registers as active, the other
\* user with no role and no is_active flag.
ActivationRegistrations ==
    {<<"a@x.com", <<"admin">>, <<TRUE>>>>, <<"b@x.com", <<>>, <<>>>>}
\* is_active of a RegisterRequest: absent, or a boolean.
ActiveInputs == {<<>>, <<TRUE>>}
AllActiveInputs == {<<>>, <<TRUE>>, <<FALSE>>}
\* The code of a VerifyEmailRequest: any code, generated yet or not.
Codes == 1..MaxCodes

\* ------------------------------------------------------------- Option
None == <<>>
Some(x) == <<x>>
IsSome(o) == o # <<>>
Unwrap(o) == o[1]
UnwrapOr(o, d) == IF o = <<>> THEN d ELSE o[1]

\* ------------------------------------------------------------- roles
UserRole == {"SuperAdmin", "Admin", "Member", "Treasurer"}

\* Mutant: from_str does not know "treasurer".
FromStr_NoTreasurer(s) ==
    CASE s = "super_admin" -> Some("SuperAdmin")
      [] s = "admin" -> Some("Admin")
      [] s = "member" -> Some("Member")
      [] OTHER -> None

\* UserRole::from_str: Ok(role) is Some(role), Err(()) is None.
FromStr(s) ==
    CASE s = "super_admin" -> Some("SuperAdmin")
      [] s = "admin" -> Some("Admin")
      [] s = "member" -> Some("Member")
      [] s = "treasurer" -> Some("Treasurer")
      [] OTHER -> None

\* Mutant: a request without a recognised role is given the Admin role.
RequestedRole_DefaultAdmin(role) ==
    IF IsSome(role) THEN UnwrapOr(FromStr(Unwrap(role)), "Admin") ELSE "Admin"

\* register: the role of the new user from the request's optional user_role.
RequestedRole(role) ==
    IF IsSome(role) THEN UnwrapOr(FromStr(Unwrap(role)), "Member") ELSE "Member"

\* ------------------------------------------------------------- passwords
\* bcrypt::hash: a salted one-way hash, here the tagged plaintext it verifies.
Hash(password) == <<"bcrypt", password>>

\* bcrypt::verify: Ok(bool) on a well-formed hash, Err on any other string.
BcryptVerify(password, hash) ==
    IF hash[1] = "bcrypt" THEN Some(hash[2] = password) ELSE None

\* The password_hash column of a stored row: what bcrypt::hash wrote, or a
\* string that bcrypt cannot parse (the plaintext, a hash cut short).
StoredHashes ==
    {Hash("secret1"), <<"plaintext", "secret1">>, <<"cut-short", "secret1">>}

\* Mutant: an error of bcrypt::verify counts as a match.
VerifyPassword_FailOpen(user, password) ==
    UnwrapOr(BcryptVerify(password, user.password_hash), TRUE)

\* User::verify_password followed by unwrap_or(false), as authenticate uses it.
VerifyPassword(user, password) ==
    UnwrapOr(BcryptVerify(password, user.password_hash), FALSE)

\* ------------------------------------------------------------- state
VARIABLES
    users,      \* the users table: a sequence of rows, a row's id is its index
    now,        \* Utc::now(), in hours
    nextCode,   \* the number of verification codes generated so far, plus one
    pc,         \* pc[p]: where request handler p stands
    loc,        \* loc[p]: the local values handler p carries between its steps
    out,        \* the response sent by the last step, if it ended a request
    consumed,   \* history: the verification codes that verify_email accepted
    regOk,      \* history: regOk[e] counts the Created answers to register(e)
    scn,        \* the scripted client's position and inputs (ScenarioSpec only)
    tokens,     \* the tokens that clients hold (specifications with
                \* authenticated requests only)
    res         \* the announcements, contributions, photos and payments tables

vars == <<users, now, nextCode, pc, loc, out, consumed, regOk, scn, tokens, res>>

NoLoc == [op |-> "none"]
NoOut == [op |-> "none"]

\* ------------------------------------------------------------- the store
Ids(us) == 1..Len(us)

\* SELECT * FROM users WHERE email = $1, fetch_optional
FindByEmail(us, email) ==
    IF \E i \in Ids(us) : us[i].email = email
    THEN Some(us[CHOOSE i \in Ids(us) : us[i].email = email])
    ELSE None

\* SELECT * FROM users WHERE id = $1, fetch_optional
FindById(us, id) == IF id \in Ids(us) THEN Some(us[id]) ELSE None

\* SELECT ... FROM users WHERE email_verification_code = $1, fetch_optional.
\* A NULL column matches no code.
FindByVerificationCode(us, code) ==
    IF \E i \in Ids(us) : us[i].email_verification_code = Some(code)
    THEN Some(us[CHOOSE i \in Ids(us) : us[i].email_verification_code = Some(code)])
    ELSE None

\* The uniqueness constraint of users.email: an INSERT of a row whose email a
\* stored row already has is rejected by the store.
UniqueViolation(us, email) == \E i \in Ids(us) : us[i].email = email

\* Duration::hours(24), the lifetime of a verification code.
VerificationHours == 24

\* Claims::new: the claims of a token issued at `at` (24 * 60 * 60 seconds).
TokenHours == 24
NewClaims(user_id, email, at) ==
    [sub |-> user_id, email |-> email, exp |-> at + TokenHours, iat |-> at]

\* AuthService::generate_token: the signed claims of the user.
GenerateToken(user, at) == NewClaims(user.id, user.email, at)


\* ------------------------------------------------------------- responses
\* What a step that ends a request sends: the HTTP status and message, the
\* token of an AuthResponse, and the email the step handed to the notifier
\* (with whether send_email succeeded), if any.
Response(op, req, status, message, token, mail) ==
    [op |-> op, req |-> req, status |-> status, message |-> message,
     token |-> token, mail |-> mail]

Mail(template, to, code, sent) ==
    Some([template |-> template, to |-> to, code |-> code, sent |-> sent])

Init ==
    /\ users = <<>>
    /\ now = 0
    /\ nextCode = 1
    /\ pc = [p \in Procs |-> "idle"]
    /\ loc = [p \in Procs |-> NoLoc]
    /\ out = NoOut
    /\ consumed = {}
    /\ regOk = [e \in Emails |-> 0]
    /\ scn = [step |-> "start"]
    /\ tokens = {}
    /\ res = <<>>

\* ------------------------------------------------------------- register
\* Mutant: register without the find_by_email pre-check of User::create.
RegisterStart_NoPrecheck(p, email, password, role, is_active) ==
    /\ pc[p] = "idle"
    /\ pc' = [pc EXCEPT ![p] = "reg_insert"]
    /\ loc' = [loc EXCEPT ![p] =
                  [op |-> "register", req |-> [email |-> email],
                   user |-> [email |-> email,
                             password_hash |-> password,
                             user_role |-> RequestedRole(role),
                             is_active |-> UnwrapOr(is_active, FALSE)]]]
    /\ out' = NoOut
    /\ UNCHANGED <<users, now, nextCode, consumed, regOk>>

\* Mutant: a request without an is_active flag creates an active user.
RegisterStart_DefaultActive(p, email, password, role, is_active) ==
    /\ pc[p] = "idle"
    /\ LET create_user == [email |-> email,
                           password_hash |-> password,
                           user_role |-> RequestedRole(role),
                           is_active |-> UnwrapOr(is_active, TRUE)]
           req == [email |-> email]
       IN IF IsSome(FindByEmail(users, email))
          THEN /\ out' = Response("register", req, "Conflict",
                                  "Email already exists", None, None)
               /\ UNCHANGED <<pc, loc>>
          ELSE /\ pc' = [pc EXCEPT ![p] = "reg_insert"]
               /\ loc' = [loc EXCEPT ![p] = [op |-> "register", req |-> req,
                                             user |-> create_user]]
               /\ out' = NoOut
    /\ UNCHANGED <<users, now, nextCode, consumed, regOk>>

\* register up to User::create's find_by_email pre-check.
RegisterStart(p, email, password, role, is_active) ==
    /\ pc[p] = "idle"
    /\ LET create_user == [email |-> email,
                           password_hash |-> password,
                           user_role |-> RequestedRole(role),
                           is_active |-> UnwrapOr(is_active, FALSE)]
           req == [email |-> email]
       IN IF IsSome(FindByEmail(users, email))
          THEN /\ out' = Response("register", req, "Conflict",
                                  "Email already exists", None, None)
               /\ UNCHANGED <<pc, loc>>
          ELSE /\ pc' = [pc EXCEPT ![p] = "reg_insert"]
               /\ loc' = [loc EXCEPT ![p] = [op |-> "register", req |-> req,
                                             user |-> create_user]]
               /\ out' = NoOut
    /\ UNCHANGED <<users, now, nextCode, consumed, regOk>>

\* Mutant: the expiry is the time of creation, the 24 hours are not added.
NewUser_NoLifetime(id, create_user, code, at) ==
    [id |-> id,
     email |-> create_user.email,
     password_hash |-> Hash(create_user.password_hash),
     user_role |-> create_user.user_role,
     email_verification_code |-> Some(code),
     email_verification_expires_at |-> Some(at),
     is_email_verified |-> FALSE,
     is_active |-> create_user.is_active]

\* The row User::create inserts.  Of the columns, fullname, phone, dob and
\* photo_url are left out, and so are created_at and updated_at, which no
\* handler reads: created_at is the `at` that the expiry is computed from.
NewUser(id, create_user, code, at) ==
    [id |-> id,
     email |-> create_user.email,
     password_hash |-> Hash(create_user.password_hash),
     user_role |-> create_user.user_role,
     email_verification_code |-> Some(code),
     email_verification_expires_at |-> Some(at + VerificationHours),
     is_email_verified |-> FALSE,
     is_active |-> create_user.is_active]

\* Mutant: a verification email that could not be sent fails the registration.
RegisterResponse_MailFatal(req, created, at, sent) ==
    IF IsSome(created) /\ sent
    THEN Response("register", req, "Created",
                  "Registration successful. Please check your email to verify your account.",
                  Some(GenerateToken(Unwrap(created), at)),
                  Mail("verification", Unwrap(created).email,
                       Unwrap(created).email_verification_code, sent))
    ELSE Response("register", req, "InternalServerError",
                  "Failed to create user", None,
                  IF IsSome(created)
                  THEN Mail("verification", Unwrap(created).email,
                            Unwrap(created).email_verification_code, sent)
                  ELSE None)

\* register's answer to the result of User::create: Ok(user) is Some(user),
\* Err(UserError::Database) is None.
RegisterResponse(req, created, at, sent) ==
    IF IsSome(created)
    THEN Response("register", req, "Created",
                  "Registration successful. Please check your email to verify your account.",
                  Some(GenerateToken(Unwrap(created), at)),
                  IF IsSome(Unwrap(created).email_verification_code)
                  THEN Mail("verification", Unwrap(created).email,
                            Unwrap(created).email_verification_code, sent)
                  ELSE None)
    ELSE Response("register", req, "InternalServerError",
                  "Failed to create user", None, None)

\* Mutant: the INSERT is an upsert (ON CONFLICT DO UPDATE ... RETURNING *), so
\* a duplicate email returns the stored row and register answers Created.
RegisterInsert_Upsert(p, sent) ==
    /\ pc[p] = "reg_insert"
    /\ nextCode <= MaxCodes
    /\ LET cu == loc[p].user
           row == NewUser(Len(users) + 1, cu, nextCode, now)
       IN IF UniqueViolation(users, cu.email)
          THEN /\ out' = RegisterResponse(loc[p].req, FindByEmail(users, cu.email),
                                          now, sent)
               /\ UNCHANGED <<users, nextCode>>
          ELSE /\ users' = Append(users, row)
               /\ nextCode' = nextCode + 1
               /\ out' = RegisterResponse(loc[p].req, Some(row), now, sent)
    /\ regOk' = IF out'.status = "Created"
                THEN [regOk EXCEPT ![out'.req.email] = @ + 1]
                ELSE regOk
    /\ pc' = [pc EXCEPT ![p] = "idle"]
    /\ loc' = [loc EXCEPT ![p] = NoLoc]
    /\ UNCHANGED <<now, consumed>>

\* User::create from its INSERT on, and the rest of register: the verification
\* email (sent or not, the handler only logs a failure) and the token.
RegisterInsert(p, sent) ==
    /\ pc[p] = "reg_insert"
    /\ nextCode <= MaxCodes
    /\ LET cu == loc[p].user
           row == NewUser(Len(users) + 1, cu, nextCode, now)
       IN IF UniqueViolation(users, cu.email)
          THEN /\ out' = RegisterResponse(loc[p].req, None, now, sent)
               /\ UNCHANGED <<users, nextCode>>
          ELSE /\ users' = Append(users, row)
               /\ nextCode' = nextCode + 1
               /\ out' = RegisterResponse(loc[p].req, Some(row), now, sent)
    /\ regOk' = IF out'.status = "Created"
                THEN [regOk EXCEPT ![out'.req.email] = @ + 1]
                ELSE regOk
    /\ pc' = [pc EXCEPT ![p] = "idle"]
    /\ loc' = [loc EXCEPT ![p] = NoLoc]
    /\ UNCHANGED <<now, consumed>>

\* ------------------------------------------------------------- login
\* Mutant: authenticate returns the row found without verifying the password.
Authenticate_NoPasswordCheck(us, email, password) == FindByEmail(us, email)

\* User::authenticate
Authenticate(us, email, password) ==
    LET found == FindByEmail(us, email)
    IN IF IsSome(found) /\ VerifyPassword(Unwrap(found), password)
       THEN found
       ELSE None

\* AuthService::authenticate_user
AuthenticateUser(us, email, password) == Authenticate(us, email, password)

\* Mutant: login checks is_email_verified before is_active.
LoginResponse_VerifiedFirst(req, authenticated, at) ==
    IF ~IsSome(authenticated)
    THEN Response("login", req, "Unauthorized", "Invalid credentials", None, None)
    ELSE IF ~Unwrap(authenticated).is_email_verified
    THEN Response("login", req, "Forbidden",
                  "Please verify your email address before logging in", None, None)
    ELSE IF ~Unwrap(authenticated).is_active
    THEN Response("login", req, "Forbidden", "Account is not active", None, None)
    ELSE Response("login", req, "Ok", "",
                  Some(GenerateToken(Unwrap(authenticated), at)), None)

\* login's answer to what authenticate_user returned.
LoginResponse(req, authenticated, at) ==
    IF ~IsSome(authenticated)
    THEN Response("login", req, "Unauthorized", "Invalid credentials", None, None)
    ELSE IF ~Unwrap(authenticated).is_active
    THEN Response("login", req, "Forbidden", "Account is not active", None, None)
    ELSE IF ~Unwrap(authenticated).is_email_verified
    THEN Response("login", req, "Forbidden",
                  "Please verify your email address before logging in", None, None)
    ELSE Response("login", req, "Ok", "",
                  Some(GenerateToken(Unwrap(authenticated), at)), None)

\* login: one read of the store.
Login(p, email, password) ==
    /\ pc[p] = "idle"
    /\ out' = LoginResponse([email |-> email, password |-> password],
                            AuthenticateUser(users, email, password), now)
    /\ UNCHANGED <<users, now, nextCode, pc, loc, consumed, regOk>>

\* ------------------------------------------------------------- verify_email
\* Mutant: the expiry of the row found is not checked.
CodeExpired_Never(user, at) == FALSE

\* Mutant: the code is refused from the instant of its expiry on (>=).
CodeExpired_AtExpiry(user, at) ==
    /\ IsSome(user.email_verification_expires_at)
    /\ at >= Unwrap(user.email_verification_expires_at)

\* User::verify_email's check of the expiry of the row it found.
CodeExpired(user, at) ==
    /\ IsSome(user.email_verification_expires_at)
    /\ at > Unwrap(user.email_verification_expires_at)

\* verify_email up to the UPDATE of User::verify_email: the row is looked up
\* by the code and its expiry checked against Utc::now(), kept as loc[p].at.
VerifyStart(p, code) ==
    /\ pc[p] = "idle"
    /\ LET found == FindByVerificationCode(users, code)
           req == [code |-> code]
       IN IF ~IsSome(found)
          THEN /\ out' = Response("verify_email", req, "BadRequest",
                                  "Invalid verification code", None, None)
               /\ UNCHANGED <<pc, loc>>
          ELSE IF CodeExpired(Unwrap(found), now)
          THEN /\ out' = Response("verify_email", req, "BadRequest",
                                  "Verification code has expired", None, None)
               /\ UNCHANGED <<pc, loc>>
          ELSE /\ pc' = [pc EXCEPT ![p] = "ver_update"]
               /\ loc' = [loc EXCEPT ![p] = [op |-> "verify_email", req |-> req,
                                             id |-> Unwrap(found).id, at |-> now]]
               /\ out' = NoOut
    /\ UNCHANGED <<users, now, nextCode, consumed, regOk>>

\* Mutant: the UPDATE marks the row verified and leaves the code in place.
MarkVerified_KeepsCode(us, id) ==
    [us EXCEPT ![id] = [@ EXCEPT !.is_email_verified = TRUE,
                                 !.email_verification_expires_at = None]]

\* Mutant: the UPDATE marks the row verified and leaves the expiry in place.
MarkVerified_KeepsExpiry(us, id) ==
    [us EXCEPT ![id] = [@ EXCEPT !.is_email_verified = TRUE,
                                 !.email_verification_code = None]]

\* UPDATE users SET is_email_verified = true, email_verification_code = NULL,
\* email_verification_expires_at = NULL WHERE id = $1
MarkVerified(us, id) ==
    [us EXCEPT ![id] = [@ EXCEPT !.is_email_verified = TRUE,
                                 !.email_verification_code = None,
                                 !.email_verification_expires_at = None]]

\* The UPDATE of User::verify_email and the rest of verify_email: the welcome
\* email (sent or not, the handler only logs a failure).
VerifyUpdate(p, sent) ==
    /\ pc[p] = "ver_update"
    /\ users' = MarkVerified(users, loc[p].id)
    /\ out' = Response("verify_email", loc[p].req, "Ok",
                       "Email verified successfully! Welcome to Portal.", None,
                       Mail("welcome", users'[loc[p].id].email, None, sent))
    /\ consumed' = consumed \cup {loc[p].req.code}
    /\ pc' = [pc EXCEPT ![p] = "idle"]
    /\ loc' = [loc EXCEPT ![p] = NoLoc]
    /\ UNCHANGED <<now, nextCode, regOk>>

\* ------------------------------------------------------------- resend
\* resend_verification up to the UPDATE of User::resend_verification_code.
\* An already verified user is returned as found, and the handler answers
\* that the email is already verified.
ResendStart(p, email) ==
    /\ pc[p] = "idle"
    /\ LET found == FindByEmail(users, email)
           req == [email |-> email]
       IN IF ~IsSome(found)
          THEN /\ out' = Response("resend_verification", req, "NotFound",
                                  "User with email not found", None, None)
               /\ UNCHANGED <<pc, loc>>
          ELSE IF Unwrap(found).is_email_verified
          THEN /\ out' = Response("resend_verification", req, "BadRequest",
                                  "Email is already verified", None, None)
               /\ UNCHANGED <<pc, loc>>
          ELSE /\ pc' = [pc EXCEPT ![p] = "res_update"]
               /\ loc' = [loc EXCEPT ![p] = [op |-> "resend_verification",
                                             req |-> req, id |-> Unwrap(found).id]]
               /\ out' = NoOut
    /\ UNCHANGED <<users, now, nextCode, consumed, regOk>>

\* Mutant: the UPDATE writes the new code and keeps the expiry of the old one.
SetVerificationCode_KeepsExpiry(us, id, code, expires_at) ==
    [us EXCEPT ![id] = [@ EXCEPT !.email_verification_code = Some(code)]]

\* UPDATE users SET email_verification_code = $2,
\* email_verification_expires_at = $3 WHERE id = $1
SetVerificationCode(us, id, code, expires_at) ==
    [us EXCEPT ![id] = [@ EXCEPT !.email_verification_code = Some(code),
                                 !.email_verification_expires_at = Some(expires_at)]]

\* Mutant: a failure to send the email is only logged, as in register.
ResendResponse_MailIgnored(req, user, sent) ==
    IF user.is_email_verified
    THEN Response("resend_verification", req, "BadRequest",
                  "Email is already verified", None, None)
    ELSE Response("resend_verification", req, "Ok",
                  "Verification email resent", None,
                  IF IsSome(user.email_verification_code)
                  THEN Mail("verification", user.email, user.email_verification_code, sent)
                  ELSE None)

\* resend_verification's answer to the row the UPDATE returned.
ResendResponse(req, user, sent) ==
    IF user.is_email_verified
    THEN Response("resend_verification", req, "BadRequest",
                  "Email is already verified", None, None)
    ELSE IF IsSome(user.email_verification_code) /\ ~sent
    THEN Response("resend_verification", req, "InternalServerError",
                  "Failed to send verification email", None,
                  Mail("verification", user.email, user.email_verification_code, sent))
    ELSE Response("resend_verification", req, "Ok",
                  "Verification email resent", None,
                  IF IsSome(user.email_verification_code)
                  THEN Mail("verification", user.email, user.email_verification_code, sent)
                  ELSE None)

\* Mutant: the email is sent before the UPDATE, which is skipped when the
\* send fails.
ResendUpdate_SendFirst(p, sent) ==
    /\ pc[p] = "res_update"
    /\ nextCode <= MaxCodes
    /\ users' = IF sent
                THEN SetVerificationCode(users, loc[p].id, nextCode,
                                         now + VerificationHours)
                ELSE users
    /\ nextCode' = nextCode + 1
    /\ out' = ResendResponse(loc[p].req,
                             SetVerificationCode(users, loc[p].id, nextCode,
                                                 now + VerificationHours)[loc[p].id],
                             sent)
    /\ pc' = [pc EXCEPT ![p] = "idle"]
    /\ loc' = [loc EXCEPT ![p] = NoLoc]
    /\ UNCHANGED <<now, consumed, regOk>>

\* The UPDATE of User::resend_verification_code and the rest of
\* resend_verification: the email with the new code, whose failure is an error.
ResendUpdate(p, sent) ==
    /\ pc[p] = "res_update"
    /\ nextCode <= MaxCodes
    /\ users' = SetVerificationCode(users, loc[p].id, nextCode, now + VerificationHours)
    /\ nextCode' = nextCode + 1
    /\ out' = ResendResponse(loc[p].req, users'[loc[p].id], sent)
    /\ pc' = [pc EXCEPT ![p] = "idle"]
    /\ loc' = [loc EXCEPT ![p] = NoLoc]
    /\ UNCHANGED <<now, consumed, regOk>>

\* ------------------------------------------------------------- callers
\* validate_token: a token is refused as expired when now > expires_at.
ValidToken(claims, at) == ~(at > claims.exp)

\* The AuthenticatedUser that the middleware extracts from a valid token:
\* the identity and the role of the user the token was issued to (a user's
\* role never changes after registration).
AuthenticatedUser(us, claims) ==
    [user_id |-> claims.sub, user_role |-> us[claims.sub].user_role]

\* The callers of authenticated requests: the users holding a valid token.
Callers(us, ts, at) ==
    {AuthenticatedUser(us, t) : t \in {x \in ts : ValidToken(x, at)}}

\* The token of an AuthResponse, if the response is one.
IssuedToken(response) ==
    IF response.op \in {"register", "login"} THEN response.token ELSE None

\* A client keeps the token it was issued last.
KeepToken(ts, issued) ==
    IF IsSome(issued)
    THEN {x \in ts : x.sub # Unwrap(issued).sub} \cup {Unwrap(issued)}
    ELSE ts

\* ------------------------------------------------------------- toggle_user_active
\* The id in the path of a toggle request: a user's id, or one of no user.
TargetIds(us) == 1..(Len(us) + 1)

\* Mutant: an administrator may toggle their own account.
ToggleCheck_SelfAllowed(user, target) ==
    IF user.user_role # "SuperAdmin" /\ user.user_role # "Admin"
    THEN Some(<<"Forbidden", "You don't have permission to perform this action">>)
    ELSE None

\* toggle_user_active's checks of the caller, before it touches the store:
\* the status and message of the rejection, if any.
ToggleCheck(user, target) ==
    IF user.user_role # "SuperAdmin" /\ user.user_role # "Admin"
    THEN Some(<<"Forbidden", "You don't have permission to perform this action">>)
    ELSE IF target = user.user_id
    THEN Some(<<"BadRequest", "You cannot deactivate your own account">>)
    ELSE None

\* toggle_user_active up to the UPDATE of User::toggle_active: the checks of
\* the caller and the find_by_id of the target, whose is_active is kept.
ToggleStart(p, user, target) ==
    /\ pc[p] = "idle"
    /\ LET req == [user |-> user, target |-> target]
           rejected == ToggleCheck(user, target)
           found == FindById(users, target)
       IN IF IsSome(rejected)
          THEN /\ out' = Response("toggle_user_active", req, Unwrap(rejected)[1],
                                  Unwrap(rejected)[2], None, None)
               /\ UNCHANGED <<pc, loc>>
          ELSE IF ~IsSome(found)
          THEN /\ out' = Response("toggle_user_active", req, "NotFound",
                                  "User not found", None, None)
               /\ UNCHANGED <<pc, loc>>
          ELSE /\ pc' = [pc EXCEPT ![p] = "tog_update"]
               /\ loc' = [loc EXCEPT ![p] = [op |-> "toggle_user_active",
                                             req |-> req, id |-> Unwrap(found).id,
                                             is_active |-> Unwrap(found).is_active]]
               /\ out' = NoOut
    /\ UNCHANGED <<users, now, nextCode, consumed, regOk>>

\* Mutant: the UPDATE also resets is_email_verified.
SetActive_ResetsVerified(us, id, is_active) ==
    [us EXCEPT ![id] = [@ EXCEPT !.is_active = is_active,
                                 !.is_email_verified = FALSE]]

\* Mutant: the UPDATE that activates a row also makes it an Admin.
SetActive_Promotes(us, id, is_active) ==
    [us EXCEPT ![id] = [@ EXCEPT !.is_active = is_active,
                                 !.user_role = IF is_active THEN "Admin" ELSE @]]

\* UPDATE users SET is_active = $2, updated_at = $3 WHERE id = $1
SetActive(us, id, is_active) == [us EXCEPT ![id] = [@ EXCEPT !.is_active = is_active]]

\* Mutant: the UPDATE writes is_active = false whatever find_by_id read.
ToggleUpdate_Deactivates(p) ==
    /\ pc[p] = "tog_update"
    /\ users' = SetActive(users, loc[p].id, FALSE)
    /\ out' = Response("toggle_user_active", loc[p].req, "Ok", "", None, None)
    /\ pc' = [pc EXCEPT ![p] = "idle"]
    /\ loc' = [loc EXCEPT ![p] = NoLoc]
    /\ UNCHANGED <<now, nextCode, consumed, regOk>>

\* The UPDATE of User::toggle_active, which writes the negation of the
\* is_active that find_by_id read, and toggle_user_active's answer.
ToggleUpdate(p) ==
    /\ pc[p] = "tog_update"
    /\ users' = SetActive(users, loc[p].id, ~loc[p].is_active)
    /\ out' = Response("toggle_user_active", loc[p].req, "Ok", "", None, None)
    /\ pc' = [pc EXCEPT ![p] = "idle"]
    /\ loc' = [loc EXCEPT ![p] = NoLoc]
    /\ UNCHANGED <<now, nextCode, consumed, regOk>>

\* ------------------------------------------------------------- resources
\* The four kinds of resource with mutation endpoints.  A row of `res` is
\* [kind, owner, text, live]: owner is posted_by (announcements, photos),
\* created_by (contributions) or user_id (payments); text stands for the
\* content columns; a row's id is its index, and a deleted row stays in the
\* sequence with live = FALSE, so that its id is never used again.
ResourceKinds == {"announcement", "contribution", "photo", "payment"}
ResourceIds == 1..MaxResources
Deleted == [live |-> FALSE]

\* The content fields of an update request: absent, or a new text.
UpdateTexts == {<<>>, <<"t2">>}

\* The update requests of a kind: only an UpdatePaymentRequest has a user_id.
UpdateData(kind, us) ==
    {[text |-> t, user_id |-> u] :
        t \in UpdateTexts,
        u \in IF kind = "payment" THEN {None} \cup {Some(i) : i \in Ids(us)}
              ELSE {None}}

\* The user_id of a create request: only a PaymentRequest has one, the
\* other kinds are created for the caller.
CreateUserIds(kind, user, us) ==
    IF kind = "payment" THEN Ids(us) ELSE {user.user_id}

\* SELECT * FROM <kind>s WHERE id = $1, fetch_optional
FindResource(rs, kind, id) ==
    IF id \in 1..Len(rs) /\ rs[id].live /\ rs[id].kind = kind
    THEN Some(rs[id])
    ELSE None

\* announcements::update and announcements::delete: the ownership check.
AnnouncementDenied(existing, user) == existing.owner # user.user_id

\* contributions::update and contributions::delete: the ownership check.
ContributionDenied(existing, user) == existing.owner # user.user_id

\* Mutant: a photo is open to every caller who is not a Treasurer.
PhotoDenied_MembersAllowed(existing, user) ==
    /\ existing.owner # user.user_id
    /\ user.user_role = "Treasurer"

\* photos::update and photos::delete: the ownership and role check.
PhotoDenied(existing, user) ==
    /\ existing.owner # user.user_id
    /\ user.user_role # "Admin"
    /\ user.user_role # "SuperAdmin"

\* payments::update: the ownership and role check.
PaymentUpdateDenied(existing, user) ==
    /\ existing.owner # user.user_id
    /\ user.user_role # "Admin"
    /\ user.user_role # "SuperAdmin"

\* payments::delete: the role check.
PaymentDeleteDenied(existing, user) ==
    /\ user.user_role # "Admin"
    /\ user.user_role # "SuperAdmin"

\* Whether the update handler of the kind answers "Access denied".
UpdateDenied(kind, existing, user) ==
    CASE kind = "announcement" -> AnnouncementDenied(existing, user)
      [] kind = "contribution" -> ContributionDenied(existing, user)
      [] kind = "photo" -> PhotoDenied(existing, user)
      [] kind = "payment" -> PaymentUpdateDenied(existing, user)

\* Whether the delete handler of the kind answers "Access denied".
DeleteDenied(kind, existing, user) ==
    CASE kind = "announcement" -> AnnouncementDenied(existing, user)
      [] kind = "contribution" -> ContributionDenied(existing, user)
      [] kind = "photo" -> PhotoDenied(existing, user)
      [] kind = "payment" -> PaymentDeleteDenied(existing, user)

\* "<Kind> not found", the message of the handler's own find_by_id.
NotFoundMessage(kind) ==
    CASE kind = "announcement" -> "Announcement not found"
      [] kind = "contribution" -> "Contribution not found"
      [] kind = "photo" -> "Photo not found"
      [] kind = "payment" -> "Payment not found"

\* "<Kind> {id} not found", the message for the model's NotFound { id }.
NotFoundIdMessage(kind) ==
    CASE kind = "announcement" -> "Announcement {} not found"
      [] kind = "contribution" -> "Contribution {} not found"
      [] kind = "photo" -> "Photo {} not found"
      [] kind = "payment" -> "Payment {} not found"

\* <kind>s::create: one INSERT.  The owner is the caller, except for a payment,
\* whose user_id is the one of the request.
ResCreate(p, kind, user, user_id) ==
    /\ pc[p] = "idle"
    /\ Len(res) < MaxResources
    /\ res' = Append(res, [kind |-> kind,
                           owner |-> IF kind = "payment" THEN user_id
                                     ELSE user.user_id,
                           text |-> "t1", live |-> TRUE])
    /\ out' = Response("create", [kind |-> kind, id |-> Len(res'), user |-> user],
                       "Created", "", None, None)
    /\ UNCHANGED <<users, now, nextCode, pc, loc, consumed, regOk>>

\* <kind>s::update up to the call of the model's update: the handler's
\* find_by_id and its check of the caller against the row found.
ResUpdateStart(p, kind, id, user, data) ==
    /\ pc[p] = "idle"
    /\ LET req == [kind |-> kind, id |-> id, user |-> user]
           found == FindResource(res, kind, id)
       IN IF ~IsSome(found)
          THEN /\ out' = Response("update", req, "NotFound",
                                  NotFoundMessage(kind), None, None)
               /\ UNCHANGED <<pc, loc>>
          ELSE IF UpdateDenied(kind, Unwrap(found), user)
          THEN /\ out' = Response("update", req, "Forbidden", "Access denied",
                                  None, None)
               /\ UNCHANGED <<pc, loc>>
          ELSE /\ pc' = [pc EXCEPT ![p] = "upd_find"]
               /\ loc' = [loc EXCEPT ![p] = [op |-> "update", req |-> req,
                                             data |-> data]]
               /\ out' = NoOut
    /\ UNCHANGED <<users, now, nextCode, consumed, regOk, res>>

\* The model's check that the update has a field to write.  photos::update
\* always passes a caption, so a photo update never lacks fields.
NoUpdateFields(kind, data) ==
    CASE kind = "photo" -> FALSE
      [] kind = "payment" -> ~IsSome(data.text) /\ ~IsSome(data.user_id)
      [] OTHER -> ~IsSome(data.text)

\* The model's update up to its UPDATE: the check of the fields and the
\* model's own find_by_id, whose row supplies the columns not updated.
ResUpdateFind(p) ==
    /\ pc[p] = "upd_find"
    /\ LET req == loc[p].req
           found == FindResource(res, req.kind, req.id)
       IN IF NoUpdateFields(req.kind, loc[p].data)
          THEN /\ out' = Response("update", req, "BadRequest",
                                  "No fields provided for update", None, None)
               /\ pc' = [pc EXCEPT ![p] = "idle"]
               /\ loc' = [loc EXCEPT ![p] = NoLoc]
          ELSE IF ~IsSome(found)
          THEN /\ out' = Response("update", req, "NotFound",
                                  NotFoundIdMessage(req.kind), None, None)
               /\ pc' = [pc EXCEPT ![p] = "idle"]
               /\ loc' = [loc EXCEPT ![p] = NoLoc]
          ELSE /\ pc' = [pc EXCEPT ![p] = "upd_write"]
               /\ loc' = [loc EXCEPT ![p] =
                             [op |-> "update", req |-> req, data |-> loc[p].data,
                              existing |-> Unwrap(found)]]
               /\ out' = NoOut
    /\ UNCHANGED <<users, now, nextCode, consumed, regOk, res>>

\* UPDATE <kind>s SET ... WHERE id = $1: the fields of the request, and for
\* the others the values of the row the model read; only a payment's owner
\* (user_id) is a column of the UPDATE.
UpdatedRow(kind, existing, data) ==
    [kind |-> kind,
     owner |-> IF kind = "payment" THEN UnwrapOr(data.user_id, existing.owner)
               ELSE existing.owner,
     text |-> UnwrapOr(data.text, existing.text),
     live |-> TRUE]

\* The UPDATE of the model's update (fetch_optional: a row deleted in the
\* meantime is no error) and the handler's answer.
ResUpdateWrite(p) ==
    /\ pc[p] = "upd_write"
    /\ LET req == loc[p].req
       IN /\ res' = IF IsSome(FindResource(res, req.kind, req.id))
                    THEN [res EXCEPT ![req.id] =
                             UpdatedRow(req.kind, loc[p].existing, loc[p].data)]
                    ELSE res
          /\ out' = Response("update", req, "Ok", "", None, None)
    /\ pc' = [pc EXCEPT ![p] = "idle"]
    /\ loc' = [loc EXCEPT ![p] = NoLoc]
    /\ UNCHANGED <<users, now, nextCode, consumed, regOk>>

\* <kind>s::delete up to the call of the model's delete: the handler's
\* find_by_id and its check of the caller against the row found.
ResDeleteStart(p, kind, id, user) ==
    /\ pc[p] = "idle"
    /\ LET req == [kind |-> kind, id |-> id, user |-> user]
           found == FindResource(res, kind, id)
       IN IF ~IsSome(found)
          THEN /\ out' = Response("delete", req, "NotFound",
                                  NotFoundMessage(kind), None, None)
               /\ UNCHANGED <<pc, loc>>
          ELSE IF DeleteDenied(kind, Unwrap(found), user)
          THEN /\ out' = Response("delete", req, "Forbidden", "Access denied",
                                  None, None)
               /\ UNCHANGED <<pc, loc>>
          ELSE /\ pc' = [pc EXCEPT ![p] = "del_write"]
               /\ loc' = [loc EXCEPT ![p] = [op |-> "delete", req |-> req]]
               /\ out' = NoOut
    /\ UNCHANGED <<users, now, nextCode, consumed, regOk, res>>

\* DELETE FROM <kind>s WHERE id = $1 (no row affected is NotFound { id }) and
\* the handler's answer.
ResDeleteWrite(p) ==
    /\ pc[p] = "del_write"
    /\ LET req == loc[p].req
       IN IF IsSome(FindResource(res, req.kind, req.id))
          THEN /\ res' = [res EXCEPT ![req.id] = Deleted]
               /\ out' = Response("delete", req, "Ok", "", None, None)
          ELSE /\ res' = res
               /\ out' = Response("delete", req, "NotFound",
                                  NotFoundIdMessage(req.kind), None, None)
    /\ pc' = [pc EXCEPT ![p] = "idle"]
    /\ loc' = [loc EXCEPT ![p] = NoLoc]
    /\ UNCHANGED <<users, now, nextCode, consumed, regOk>>

\* ------------------------------------------------------------- the clock
Tick ==
    /\ now < MaxTicks * TickHours
    /\ now' = now + TickHours
    /\ out' = NoOut
    /\ UNCHANGED <<users, nextCode, pc, loc, consumed, regOk>>

\* ------------------------------------------------------------- behaviours
\* One step of request handler p, its request drawn from the given inputs.
Step(p, emails, roles, actives) ==
    \/ \E e \in emails, pw \in Passwords, r \in roles, a \in actives :
          RegisterStart(p, e, pw, r, a) /\ UNCHANGED <<scn, tokens, res>>
    \/ \E s \in BOOLEAN : RegisterInsert(p, s) /\ UNCHANGED <<scn, tokens, res>>
    \/ \E e \in emails, pw \in LoginPasswords : Login(p, e, pw) /\ UNCHANGED <<scn, tokens, res>>
    \/ \E c \in Codes : VerifyStart(p, c) /\ UNCHANGED <<scn, tokens, res>>
    \/ \E s \in BOOLEAN : VerifyUpdate(p, s) /\ UNCHANGED <<scn, tokens, res>>
    \/ \E e \in emails : ResendStart(p, e) /\ UNCHANGED <<scn, tokens, res>>
    \/ \E s \in BOOLEAN : ResendUpdate(p, s) /\ UNCHANGED <<scn, tokens, res>>

\* Requests are handled concurrently: any handler may take its next step.
Next ==
    \/ \E p \in Procs : Step(p, ConcurrentEmails, {None}, ActiveInputs)
    \/ Tick /\ UNCHANGED <<scn, tokens, res>>

Spec == Init /\ [][Next]_vars

\* Requests are handled one after the other: a single handler takes every
\* step, so a request starts only when the one before it was answered.
SeqNext ==
    \/ Step(1, Emails, RoleInputs, ActiveInputs)
    \/ Tick /\ UNCHANGED <<scn, tokens, res>>

SeqSpec == Init /\ [][SeqNext]_vars

\* Requests are handled one after the other, the clients keep the tokens
\* that register and login issue, and the holders of valid tokens also
\* request toggle_user_active.
AdminNext ==
    \/ \E er \in AdminRegistrations, pw \in Passwords, a \in ActiveInputs :
          RegisterStart(1, er[1], pw, er[2], a) /\ UNCHANGED <<scn, tokens, res>>
    \/ \E s \in BOOLEAN :
          /\ RegisterInsert(1, s)
          /\ tokens' = KeepToken(tokens, IssuedToken(out'))
          /\ UNCHANGED <<scn, res>>
    \/ \E e \in Emails, pw \in Passwords :
          /\ Login(1, e, pw)
          /\ tokens' = KeepToken(tokens, IssuedToken(out'))
          /\ UNCHANGED <<scn, res>>
    \/ \E c \in Codes : VerifyStart(1, c) /\ UNCHANGED <<scn, tokens, res>>
    \/ \E s \in BOOLEAN : VerifyUpdate(1, s) /\ UNCHANGED <<scn, tokens, res>>
    \/ \E e \in Emails : ResendStart(1, e) /\ UNCHANGED <<scn, tokens, res>>
    \/ \E s \in BOOLEAN : ResendUpdate(1, s) /\ UNCHANGED <<scn, tokens, res>>
    \/ \E user \in Callers(users, tokens, now), target \in TargetIds(users) :
          ToggleStart(1, user, target) /\ UNCHANGED <<scn, tokens, res>>
    \/ ToggleUpdate(1) /\ UNCHANGED <<scn, tokens, res>>
    \/ Tick /\ UNCHANGED <<scn, tokens, res>>

AdminSpec == Init /\ [][AdminNext]_vars

\* A store with one registered user of each role, each holding the token
\* that register issued: the state after four registrations at time 0.
SeedRegistrations ==
    <<[email |-> "root@x.com", user_role |-> <<"super_admin">>],
      [email |-> "admin@x.com", user_role |-> <<"admin">>],
      [email |-> "treasurer@x.com", user_role |-> <<"treasurer">>],
      [email |-> "member@x.com", user_role |-> <<>>]>>

SeededUsers ==
    [i \in DOMAIN SeedRegistrations |->
        NewUser(i, [email |-> SeedRegistrations[i].email,
                    password_hash |-> "secret1",
                    user_role |-> RequestedRole(SeedRegistrations[i].user_role),
                    is_active |-> TRUE],
                i, 0)]

SeededInit ==
    /\ users = SeededUsers
    /\ now = 0
    /\ nextCode = Len(SeededUsers) + 1
    /\ pc = [p \in Procs |-> "idle"]
    /\ loc = [p \in Procs |-> NoLoc]
    /\ out = NoOut
    /\ consumed = {}
    /\ regOk = [e \in Emails |-> 0]
    /\ scn = [step |-> "start"]
    /\ tokens = {GenerateToken(SeededUsers[i], 0) : i \in DOMAIN SeededUsers}
    /\ res = <<>>

\* The holders of valid tokens request toggle_user_active, concurrently.
ToggleNext ==
    \/ \E p \in Procs, user \in Callers(users, tokens, now), target \in TargetIds(users) :
          ToggleStart(p, user, target) /\ UNCHANGED <<scn, tokens, res>>
    \/ \E p \in Procs : ToggleUpdate(p) /\ UNCHANGED <<scn, tokens, res>>

ToggleSpec == SeededInit /\ [][ToggleNext]_vars

\* The kinds a create request may have: the four tables are independent of
\* each other, and the resources that exist together are of one kind.
CreateKinds(rs) ==
    {kind \in ResourceKinds : \A i \in 1..Len(rs) : rs[i].live => rs[i].kind = kind}

\* The holders of valid tokens create, update and delete resources of the
\* four kinds, their requests handled one after the other.
ResourceNext ==
    \/ \E kind \in CreateKinds(res), user \in Callers(users, tokens, now) :
          \E user_id \in CreateUserIds(kind, user, users) :
             ResCreate(1, kind, user, user_id) /\ UNCHANGED <<scn, tokens>>
    \/ \E kind \in ResourceKinds, id \in ResourceIds,
          user \in Callers(users, tokens, now) :
          \E data \in UpdateData(kind, users) :
             ResUpdateStart(1, kind, id, user, data) /\ UNCHANGED <<scn, tokens>>
    \/ ResUpdateFind(1) /\ UNCHANGED <<scn, tokens>>
    \/ ResUpdateWrite(1) /\ UNCHANGED <<scn, tokens>>
    \/ \E kind \in ResourceKinds, id \in ResourceIds,
          user \in Callers(users, tokens, now) :
          ResDeleteStart(1, kind, id, user) /\ UNCHANGED <<scn, tokens>>
    \/ ResDeleteWrite(1) /\ UNCHANGED <<scn, tokens>>

ResourceSpec == SeededInit /\ [][ResourceNext]_vars

\* Logins against a store whose rows hold any stored hash, well-formed or
\* not, and any is_active and is_email_verified.
StoredRows(id, email) ==
    {[NewUser(id, [email |-> email, password_hash |-> "secret1",
                   user_role |-> "Member", is_active |-> a], id, 0)
         EXCEPT !.password_hash = h] : h \in StoredHashes, a \in BOOLEAN}

StoredUsers ==
    UNION {{us, MarkVerified(us, 1), MarkVerified(us, 2),
            MarkVerified(MarkVerified(us, 1), 2)} :
           us \in {<<r1, r2>> : r1 \in StoredRows(1, "a@x.com"),
                                r2 \in StoredRows(2, "b@x.com")}}

HashInit ==
    /\ users \in StoredUsers
    /\ now = 0
    /\ nextCode = 3
    /\ pc = [p \in Procs |-> "idle"]
    /\ loc = [p \in Procs |-> NoLoc]
    /\ out = NoOut
    /\ consumed = {}
    /\ regOk = [e \in Emails |-> 0]
    /\ scn = [step |-> "start"]
    /\ tokens = {}
    /\ res = <<>>

HashNext ==
    \E e \in Emails, pw \in LoginPasswords :
        Login(1, e, pw) /\ UNCHANGED <<scn, tokens, res>>

HashSpec == HashInit /\ [][HashNext]_vars

\* Registrations with every user_role a request may carry, handled one after
\* the other; user_role of the last RegisterRequest is kept.
RoleRegister ==
    \E e \in Emails, pw \in Passwords, r \in AllRoleInputs, a \in ActiveInputs :
        /\ RegisterStart(1, e, pw, r, a)
        /\ scn' = [step |-> "registering", user_role |-> r]
        /\ UNCHANGED <<tokens, res>>

RoleNext ==
    \/ RoleRegister
    \/ \E s \in BOOLEAN : RegisterInsert(1, s) /\ UNCHANGED <<scn, tokens, res>>

RoleSpec == Init /\ [][RoleNext]_vars

\* Registration, verification and resending handled one after the other,
\* with the codes of the verification emails that reached each address kept.
Delivered(s, response) ==
    IF /\ IsSome(response.mail)
       /\ Unwrap(response.mail).template = "verification"
       /\ Unwrap(response.mail).sent
    THEN [s EXCEPT !.delivered[Unwrap(response.mail).to] =
                       @ \cup {Unwrap(Unwrap(response.mail).code)}]
    ELSE s

DeliveryInit ==
    /\ users = <<>>
    /\ now = 0
    /\ nextCode = 1
    /\ pc = [p \in Procs |-> "idle"]
    /\ loc = [p \in Procs |-> NoLoc]
    /\ out = NoOut
    /\ consumed = {}
    /\ regOk = [e \in Emails |-> 0]
    /\ scn = [step |-> "delivery", delivered |-> [e \in Emails |-> {}]]
    /\ tokens = {}
    /\ res = <<>>

DeliveryNext ==
    \/ \E e \in Emails, pw \in Passwords :
          RegisterStart(1, e, pw, None, Some(TRUE)) /\ UNCHANGED <<scn, tokens, res>>
    \/ \E s \in BOOLEAN :
          /\ RegisterInsert(1, s)
          /\ scn' = Delivered(scn, out')
          /\ UNCHANGED <<tokens, res>>
    \/ \E c \in Codes : VerifyStart(1, c) /\ UNCHANGED <<scn, tokens, res>>
    \/ \E s \in BOOLEAN : VerifyUpdate(1, s) /\ UNCHANGED <<scn, tokens, res>>
    \/ \E e \in Emails : ResendStart(1, e) /\ UNCHANGED <<scn, tokens, res>>
    \/ \E s \in BOOLEAN :
          /\ ResendUpdate(1, s)
          /\ scn' = Delivered(scn, out')
          /\ UNCHANGED <<tokens, res>>
    \/ Tick /\ UNCHANGED <<scn, tokens, res>>

DeliverySpec == DeliveryInit /\ [][DeliveryNext]_vars

\* As AdminNext, with a user who registers without the is_active flag.
ActivationNext ==
    \/ \E er \in ActivationRegistrations, pw \in Passwords :
          RegisterStart(1, er[1], pw, er[2], er[3]) /\ UNCHANGED <<scn, tokens, res>>
    \/ \E s \in BOOLEAN :
          /\ RegisterInsert(1, s)
          /\ tokens' = KeepToken(tokens, IssuedToken(out'))
          /\ UNCHANGED <<scn, res>>
    \/ \E e \in Emails, pw \in LoginPasswords :
          /\ Login(1, e, pw)
          /\ tokens' = KeepToken(tokens, IssuedToken(out'))
          /\ UNCHANGED <<scn, res>>
    \/ \E c \in Codes : VerifyStart(1, c) /\ UNCHANGED <<scn, tokens, res>>
    \/ \E s \in BOOLEAN : VerifyUpdate(1, s) /\ UNCHANGED <<scn, tokens, res>>
    \/ \E user \in Callers(users, tokens, now), target \in TargetIds(users) :
          ToggleStart(1, user, target) /\ UNCHANGED <<scn, tokens, res>>
    \/ ToggleUpdate(1) /\ UNCHANGED <<scn, tokens, res>>
    \/ Tick /\ UNCHANGED <<scn, tokens, res>>

ActivationSpec == Init /\ [][ActivationNext]_vars

\* The holders of valid tokens request toggle_user_active as well as the
\* mutations of resources, their requests handled one after the other: an
\* account may be deactivated while its token is still valid.
RevocationNext ==
    \/ ResourceNext
    \/ \E user \in Callers(users, tokens, now), target \in TargetIds(users) :
          ToggleStart(1, user, target) /\ UNCHANGED <<scn, tokens, res>>
    \/ ToggleUpdate(1) /\ UNCHANGED <<scn, tokens, res>>

RevocationSpec == SeededInit /\ [][RevocationNext]_vars

\* The scenario of one client over a fresh store: it registers with no role,
\* logs in, verifies its email with the code it was sent, and logs in again,
\* each request made once the one before it was answered, while time passes.
ScnRegister ==
    /\ UNCHANGED <<tokens, res>>
    /\ scn.step = "start"
    /\ \E e \in Emails, pw \in Passwords, a \in AllActiveInputs :
          /\ RegisterStart(1, e, pw, None, a)
          /\ scn' = [step |-> "registering", email |-> e, password |-> pw,
                     is_active |-> a]

ScnRegistered ==
    /\ UNCHANGED <<tokens, res>>
    /\ scn.step = "registering"
    /\ \E s \in BOOLEAN : RegisterInsert(1, s)
    /\ scn' = [step |-> "registered", email |-> scn.email,
               password |-> scn.password, is_active |-> scn.is_active,
               code |-> Unwrap(Unwrap(out'.mail).code)]

ScnLoginBefore ==
    /\ UNCHANGED <<tokens, res>>
    /\ scn.step = "registered"
    /\ Login(1, scn.email, scn.password)
    /\ scn' = [scn EXCEPT !.step = "login_before"]

ScnVerifyStart ==
    /\ UNCHANGED <<tokens, res>>
    /\ scn.step = "login_before"
    /\ VerifyStart(1, scn.code)
    /\ scn' = [scn EXCEPT !.step = IF pc'[1] = "ver_update" THEN "verifying"
                                    ELSE "verify_failed"]

ScnVerified ==
    /\ UNCHANGED <<tokens, res>>
    /\ scn.step = "verifying"
    /\ \E s \in BOOLEAN : VerifyUpdate(1, s)
    /\ scn' = [scn EXCEPT !.step = "verified"]

ScnLoginAfter ==
    /\ UNCHANGED <<tokens, res>>
    /\ scn.step = "verified"
    /\ Login(1, scn.email, scn.password)
    /\ scn' = [scn EXCEPT !.step = "login_after"]

ScnTick == Tick /\ UNCHANGED <<scn, tokens, res>>

ScnNext ==
    \/ ScnRegister
    \/ ScnRegistered
    \/ ScnLoginBefore
    \/ ScnVerifyStart
    \/ ScnVerified
    \/ ScnLoginAfter
    \/ ScnTick

ScenarioSpec == Init /\ [][ScnNext]_vars

\* ============================================================= properties
RowsWithEmail(us, email) == {i \in Ids(us) : us[i].email = email}

\* C1: in every reachable state of the store, also after interleaved
\* verify_email and resend_verification requests on one user, a row with
\* is_email_verified = true has a NULL email_verification_code.
C1_VerifiedHasNoCode ==
    \A i \in Ids(users) :
        users[i].is_email_verified => users[i].email_verification_code = None

\* C2: of the register requests for one email, however they interleave,
\* exactly one is answered Created: the store never holds two rows with the
\* email, every Created answer stands for one row, and whenever a register
\* request for the email has just been answered, exactly one has succeeded.
C2_ExactlyOneRegistration ==
    \A e \in Emails :
        /\ Cardinality(RowsWithEmail(users, e)) <= 1
        /\ regOk[e] = Cardinality(RowsWithEmail(users, e))
        /\ (out.op = "register" /\ out.req.email = e) => regOk[e] = 1

\* A register request that lost the race was just answered: it had passed the
\* pre-check, and its INSERT was rejected after another request's succeeded.
C2_Witness ==
    /\ out.op = "register"
    /\ out.status = "InternalServerError"
    /\ regOk[out.req.email] = 1
    /\ Cardinality(RowsWithEmail(users, out.req.email)) = 1

\* C3: a register request that passed the pre-check and whose INSERT the
\* uniqueness constraint rejects is answered Conflict (EmailAlreadyExists).
C3_RejectedInsertIsConflict ==
    [][\A p \in Procs :
          (pc[p] = "reg_insert" /\ pc'[p] = "idle"
             /\ UniqueViolation(users, loc[p].user.email))
          => out'.status = "Conflict"]_vars

\* C4: register with an email that a stored row has is answered Conflict,
\* without a token, and leaves the users table as it was: no register request
\* goes on to its INSERT when the pre-check finds the email, and a register
\* answered at the pre-check (no handler moves) is that Conflict.
C4_RegisterExistingEmail ==
    [][/\ \A p \in Procs :
             (pc[p] = "idle" /\ pc'[p] = "reg_insert")
             => RowsWithEmail(users, loc'[p].req.email) = {}
       /\ (out'.op = "register" /\ pc' = pc)
             => /\ RowsWithEmail(users, out'.req.email) # {}
                /\ out'.status = "Conflict"
                /\ out'.token = None
                /\ users' = users]_vars

C4_Witness ==
    /\ out.op = "register"
    /\ out.status = "Conflict"
    /\ RowsWithEmail(users, out.req.email) # {}

\* C5: a register request answered Created has added exactly one row, with
\* is_email_verified = false, a verification code, and an expiry 24 hours
\* after the time of creation, and the answer carries a token for that row.
C5_RegisterCreates ==
    [][\A p \in Procs :
          (pc[p] = "reg_insert" /\ pc'[p] = "idle" /\ out'.status = "Created")
          => /\ Len(users') = Len(users) + 1
             /\ SubSeq(users', 1, Len(users)) = users
             /\ LET row == users'[Len(users')]
                IN /\ row.email = loc[p].user.email
                   /\ row.is_email_verified = FALSE
                   /\ row.email_verification_code # None
                   /\ row.email_verification_expires_at = Some(now + 24)
                   /\ out'.token # None
                   /\ Unwrap(out'.token).sub = row.id
                   /\ Unwrap(out'.token).email = row.email]_vars

C5_Witness ==
    /\ out.op = "register"
    /\ out.status = "Created"
    /\ out.token # None
    /\ ~users[Unwrap(out.token).sub].is_email_verified

\* The password that login was given is the one the row was registered with.
PasswordMatches(row, password) == row.password_hash = Hash(password)

\* C6: login issues a token exactly when a row has the email, the password
\* matches it, and the row is active and verified; with matching credentials
\* an inactive row is answered "Account is not active" (whether verified or
\* not), and an active, unverified row "Please verify your email address".
C6_LoginGate ==
    out.op = "login" =>
        LET rows == RowsWithEmail(users, out.req.email)
            known == \E i \in rows : PasswordMatches(users[i], out.req.password)
        IN /\ out.token # None <=>
                 \E i \in rows : /\ PasswordMatches(users[i], out.req.password)
                                  /\ users[i].is_active
                                  /\ users[i].is_email_verified
           /\ \A i \in rows :
                 PasswordMatches(users[i], out.req.password) =>
                    /\ ~users[i].is_active =>
                          /\ out.status = "Forbidden"
                          /\ out.message = "Account is not active"
                    /\ (users[i].is_active /\ ~users[i].is_email_verified) =>
                          /\ out.status = "Forbidden"
                          /\ out.message =
                                "Please verify your email address before logging in"
                    /\ out.token # None => Unwrap(out.token).sub = i
           /\ ~known => out.token = None

\* A login with matching credentials was refused for an inactive row that is
\* verified: the inactive answer comes first.
C6_Witness ==
    /\ out.op = "login"
    /\ out.message = "Account is not active"
    /\ \E i \in RowsWithEmail(users, out.req.email) :
          /\ PasswordMatches(users[i], out.req.password)
          /\ users[i].is_email_verified

\* What the client sees of an answer.
Visible(o) == <<o.status, o.message, o.token, o.mail>>

\* C7: a login with an email no row has and a login with a wrong password for
\* a stored email are answered alike, Unauthorized "Invalid credentials",
\* whatever is_active and is_email_verified of the row are.
C7_InvalidCredentialsAlike ==
    out.op = "login" =>
        LET rows == RowsWithEmail(users, out.req.email)
        IN (rows = {} \/ \A i \in rows : ~PasswordMatches(users[i], out.req.password))
           => Visible(out) = <<"Unauthorized", "Invalid credentials", None, None>>

\* A wrong password was just refused for a row that is active and verified.
C7_Witness ==
    /\ out.op = "login"
    /\ out.status = "Unauthorized"
    /\ \E i \in RowsWithEmail(users, out.req.email) :
          /\ ~PasswordMatches(users[i], out.req.password)
          /\ users[i].is_active
          /\ users[i].is_email_verified

\* C8: in the scenario, the login made before the email is verified is
\* answered "Please verify your email address" (EmailNotVerified), and the
\* login made after verify_email succeeded is answered Ok with a token for
\* the registered user, whose role is Member.
C8_Scenario ==
    /\ (scn.step = "login_before" /\ out.op = "login")
          => /\ out.status = "Forbidden"
             /\ out.message = "Please verify your email address before logging in"
    /\ (scn.step = "login_after" /\ out.op = "login")
          => /\ out.status = "Ok"
             /\ out.token # None
             /\ users[Unwrap(out.token).sub].email = scn.email
             /\ users[Unwrap(out.token).sub].user_role = "Member"

\* C8 as amended: the same, for a registration that gives is_active = true.
C8_ScenarioActive == (scn.step # "start" /\ scn.is_active = Some(TRUE)) => C8_Scenario

\* The second login of the scenario was answered Ok, the first one having
\* been refused, for a registration with is_active = true.
C8_Witness ==
    /\ scn.step = "login_after"
    /\ scn.is_active = Some(TRUE)
    /\ out.op = "login"
    /\ out.status = "Ok"

\* C9: with requests handled one after the other, a verification code that
\* verify_email accepted is refused, as an invalid code, by every later
\* verify_email with it.
C9_CodeAcceptedOnce ==
    [][(out'.op = "verify_email" /\ out'.req.code \in consumed)
       => /\ out'.status = "BadRequest"
          /\ out'.message = "Invalid verification code"]_vars

\* A code that was accepted before was just refused.
C9_Witness ==
    /\ out.op = "verify_email"
    /\ out.req.code \in consumed
    /\ out.message = "Invalid verification code"

RowsWithCode(us, code) ==
    {i \in Ids(us) : us[i].email_verification_code = Some(code)}

\* C10: verify_email with a code that a row stores goes on to its UPDATE
\* exactly when the time is not after the row's expiry (and is otherwise
\* answered that the code has expired), and the UPDATE is answered Ok and
\* leaves the row verified, with code and expiry NULL.
C10_VerifyWithinExpiry ==
    [][/\ \A p \in Procs :
             /\ (pc[p] = "idle" /\ pc'[p] = "ver_update")
                  => /\ loc'[p].id \in RowsWithCode(users, loc'[p].req.code)
                     /\ now <= Unwrap(users[loc'[p].id].email_verification_expires_at)
             /\ (pc[p] = "ver_update" /\ pc'[p] = "idle")
                  => /\ out'.op = "verify_email"
                     /\ out'.status = "Ok"
                     /\ users'[loc[p].id].is_email_verified = TRUE
                     /\ users'[loc[p].id].email_verification_code = None
                     /\ users'[loc[p].id].email_verification_expires_at = None
       /\ (out'.op = "verify_email" /\ pc' = pc
             /\ RowsWithCode(users, out'.req.code) # {})
             => /\ \A i \in RowsWithCode(users, out'.req.code) :
                      now > Unwrap(users[i].email_verification_expires_at)
                /\ out'.status = "BadRequest"
                /\ out'.message = "Verification code has expired"
                /\ users' = users]_vars

\* verify_email accepted a code at the very time of its expiry and is about
\* to mark the row verified.
C10_Witness ==
    \E p \in Procs :
        /\ pc[p] = "ver_update"
        /\ Some(loc[p].at) = users[loc[p].id].email_verification_expires_at
        /\ users[loc[p].id].email_verification_code = Some(loc[p].req.code)

\* The rows that store the code with an expiry that the time is after.
ExpiredRowsWithCode(us, code, at) ==
    {i \in RowsWithCode(us, code) :
        /\ IsSome(us[i].email_verification_expires_at)
        /\ at > Unwrap(us[i].email_verification_expires_at)}

\* C11: verify_email with a stored code whose expiry has passed is answered
\* that the code has expired and never goes on to the UPDATE, the store is
\* left as it was (the row unverified, with the same code and expiry), and
\* as long as the row stores that code it stays expired and unverified, so
\* that every later verify_email with it is answered the same.
C11_ExpiredCodeStaysExpired ==
    [][\A c \in Codes :
          ExpiredRowsWithCode(users, c, now) # {}
          => /\ (out'.op = "verify_email" /\ out'.req.code = c /\ pc' = pc)
                  => /\ out'.status = "BadRequest"
                     /\ out'.message = "Verification code has expired"
                     /\ users' = users
             /\ \A p \in Procs :
                   (pc[p] = "idle" /\ pc'[p] = "ver_update")
                       => loc'[p].req.code # c
             /\ \A i \in ExpiredRowsWithCode(users, c, now) :
                   /\ ~users[i].is_email_verified
                   /\ users'[i].email_verification_code = Some(c)
                         => /\ i \in ExpiredRowsWithCode(users', c, now')
                            /\ ~users'[i].is_email_verified]_vars

\* verify_email was just answered that the code has expired, and the row
\* still stores the code, unverified.
C11_Witness ==
    /\ out.op = "verify_email"
    /\ out.message = "Verification code has expired"
    /\ \E i \in ExpiredRowsWithCode(users, out.req.code, now) :
          ~users[i].is_email_verified

\* C12: resend_verification for a user who is already verified is a success
\* that changes nothing: it is answered Ok, no new code is generated, no
\* email is handed to the notifier and the store is left as it was.
C12_ResendVerifiedIsSuccess ==
    [][(/\ out'.op = "resend_verification"
        /\ pc' = pc
        /\ \E i \in RowsWithEmail(users, out'.req.email) :
              users[i].is_email_verified)
       => /\ out'.status = "Ok"
          /\ out'.mail = None
          /\ nextCode' = nextCode
          /\ users' = users]_vars

\* C13: with requests handled one after the other, the UPDATE of
\* resend_verification for an unverified user stores a code that no row had,
\* with the expiry 24 hours after the time of the UPDATE, and the code it
\* replaced is on no row; a code that was issued and is on no row never comes
\* back, and verify_email with a code on no row is answered that the code is
\* invalid; verify_email with a code that a row stores is refused only after
\* the row's expiry.  None of this depends on whether the replaced code had
\* expired.
C13_ResendSupersedes ==
    [][/\ \A p \in Procs :
             (pc[p] = "res_update" /\ pc'[p] = "idle")
             => LET i == loc[p].id
                    old == users[i].email_verification_code
                    new == users'[i].email_verification_code
                IN /\ IsSome(new)
                   /\ new # old
                   /\ RowsWithCode(users, Unwrap(new)) = {}
                   /\ RowsWithCode(users', Unwrap(new)) = {i}
                   /\ Unwrap(new) \notin consumed
                   /\ users'[i].email_verification_expires_at = Some(now + 24)
                   /\ IsSome(old) => RowsWithCode(users', Unwrap(old)) = {}
       /\ \A c \in Codes :
             (c < nextCode /\ RowsWithCode(users, c) = {})
                 => RowsWithCode(users', c) = {}
       /\ (out'.op = "verify_email" /\ pc' = pc)
             => IF RowsWithCode(users, out'.req.code) = {}
                THEN /\ out'.status = "BadRequest"
                     /\ out'.message = "Invalid verification code"
                ELSE ExpiredRowsWithCode(users, out'.req.code, now) # {}]_vars

\* resend_verification has read an unverified row whose code has expired
\* and is about to replace it.
C13_Witness ==
    \E p \in Procs :
        /\ pc[p] = "res_update"
        /\ ~users[loc[p].id].is_email_verified
        /\ IsSome(users[loc[p].id].email_verification_code)
        /\ now > Unwrap(users[loc[p].id].email_verification_expires_at)

\* C14: a register or verify_email whose email the notifier failed to send
\* is answered as one whose email was sent: register is answered Created
\* with a token and the new row is stored, verify_email is answered Ok and
\* the row is verified with its code and expiry cleared.
C14_MailFailureNotFatal ==
    [][(out'.op \in {"register", "verify_email"} /\ IsSome(out'.mail)
          /\ ~Unwrap(out'.mail).sent)
       => LET to == RowsWithEmail(users', Unwrap(out'.mail).to)
          IN IF out'.op = "register"
             THEN /\ out'.status = "Created"
                  /\ IsSome(out'.token)
                  /\ Len(users') = Len(users) + 1
                  /\ to = {Len(users')}
                  /\ Unwrap(out'.token).sub = Len(users')
                  /\ users'[Len(users')].email_verification_code
                        = Unwrap(out'.mail).code
             ELSE /\ out'.status = "Ok"
                  /\ \E p \in Procs :
                        /\ pc[p] = "ver_update" /\ pc'[p] = "idle"
                        /\ to = {loc[p].id}
                        /\ users'[loc[p].id].is_email_verified
                        /\ users'[loc[p].id].email_verification_code = None
                        /\ users'[loc[p].id].email_verification_expires_at = None]_vars

\* verify_email was just answered Ok although the welcome email could not
\* be sent.
C14_Witness ==
    /\ out.op = "verify_email"
    /\ out.status = "Ok"
    /\ IsSome(out.mail)
    /\ ~Unwrap(out.mail).sent
    /\ \E i \in RowsWithEmail(users, Unwrap(out.mail).to) :
          users[i].is_email_verified

\* C15: a resend_verification for an unverified user whose email the
\* notifier failed to send is answered with the error 500 "Failed to send
\* verification email", never Ok; the new code is stored all the same.
C15_ResendMailFailureIsError ==
    [][(out'.op = "resend_verification" /\ IsSome(out'.mail)
          /\ ~Unwrap(out'.mail).sent)
       => /\ out'.status = "InternalServerError"
          /\ out'.message = "Failed to send verification email"
          /\ \E p \in Procs :
                /\ pc[p] = "res_update" /\ pc'[p] = "idle"
                /\ ~users'[loc[p].id].is_email_verified
                /\ users'[loc[p].id].email = Unwrap(out'.mail).to
                /\ users'[loc[p].id].email_verification_code
                      = Unwrap(out'.mail).code]_vars

\* resend_verification was just answered with the error, the email with the
\* new code of the unverified row not sent.
C15_Witness ==
    /\ out.op = "resend_verification"
    /\ out.status = "InternalServerError"
    /\ IsSome(out.mail)
    /\ ~Unwrap(out.mail).sent
    /\ \E i \in RowsWithEmail(users, Unwrap(out.mail).to) :
          /\ ~users[i].is_email_verified
          /\ users[i].email_verification_code = Unwrap(out.mail).code

\* C16: under register, login, verify_email, resend_verification and
\* toggle_user_active, a row is created with is_email_verified false, a
\* verified row stays verified, and a row becomes verified only in the UPDATE
\* of a verify_email that is answered Ok; so it becomes verified at most once.
C16_VerifiedOnlyByVerifyEmail ==
    [][/\ Len(users') >= Len(users)
       /\ \A i \in Ids(users') :
             IF i \notin Ids(users)
             THEN ~users'[i].is_email_verified
             ELSE /\ users[i].is_email_verified => users'[i].is_email_verified
                  /\ (~users[i].is_email_verified /\ users'[i].is_email_verified)
                       => /\ out'.op = "verify_email"
                          /\ out'.status = "Ok"
                          /\ \E p \in Procs :
                                /\ pc[p] = "ver_update" /\ pc'[p] = "idle"
                                /\ loc[p].id = i]_vars

\* toggle_user_active has just written the is_active of a verified row,
\* which is still verified.
C16_Witness ==
    /\ out.op = "toggle_user_active"
    /\ out.status = "Ok"
    /\ users[out.req.target].is_email_verified

\* The request of an update or delete that was just answered by the
\* handler's own find_by_id and check, and the row that find_by_id read.
AnsweredAtCheck == out'.op \in {"update", "delete"} /\ pc' = pc
RowChecked == FindResource(res, out'.req.kind, out'.req.id)

IsAdmin(user) == user.user_role \in {"Admin", "SuperAdmin"}

\* C17: a caller whose role is Admin or SuperAdmin is not denied the update
\* or the delete of an existing resource that another user owns, whatever
\* the kind of the resource.
C17_AdminMayMutate ==
    [][(/\ AnsweredAtCheck
        /\ IsSome(RowChecked)
        /\ Unwrap(RowChecked).owner # out'.req.user.user_id
        /\ IsAdmin(out'.req.user))
       => out'.status # "Forbidden"]_vars

\* C18: the owner of an existing resource is not denied its update or its
\* delete, whatever the owner's role and the kind of the resource.
C18_OwnerMayMutate ==
    [][(/\ AnsweredAtCheck
        /\ IsSome(RowChecked)
        /\ Unwrap(RowChecked).owner = out'.req.user.user_id)
       => out'.status # "Forbidden"]_vars

\* C19: an update or delete of an existing resource by a caller who is not
\* its owner and whose role is Member or Treasurer goes no further than the
\* handler's check: it is answered Forbidden "Access denied" and the
\* resources are left as they were.  A resource changes only in the write
\* step of a request that passed the check.
C19_OthersDenied ==
    [][/\ \A p \in Procs :
             (pc[p] = "idle" /\ pc'[p] \in {"upd_find", "del_write"})
             => LET req == loc'[p].req
                    found == FindResource(res, req.kind, req.id)
                IN /\ IsSome(found)
                   /\ \/ Unwrap(found).owner = req.user.user_id
                      \/ IsAdmin(req.user)
       /\ (/\ AnsweredAtCheck
           /\ IsSome(RowChecked)
           /\ Unwrap(RowChecked).owner # out'.req.user.user_id
           /\ out'.req.user.user_role \in {"Member", "Treasurer"})
          => /\ out'.status = "Forbidden"
             /\ out'.message = "Access denied"
             /\ res' = res
       /\ res' # res
          => \/ out'.op = "create"
             \/ \E p \in Procs : /\ pc[p] \in {"upd_write", "del_write"}
                                  /\ pc'[p] = "idle"]_vars

\* A Member or Treasurer was just denied the update or delete of a resource
\* that exists and that another user owns.
C19_Witness ==
    /\ out.op \in {"update", "delete"}
    /\ out.status = "Forbidden"
    /\ out.req.user.user_role \in {"Member", "Treasurer"}
    /\ IsSome(FindResource(res, out.req.kind, out.req.id))
    /\ res[out.req.id].owner # out.req.user.user_id

\* C20: toggle_user_active goes on to its UPDATE only for a caller whose
\* role is Admin or SuperAdmin and who is not the target, and the is_active
\* of a row changes only in such an UPDATE, which leaves every other row as
\* it was; a request whose target is the caller is rejected whatever the
\* role (Forbidden for a Member or Treasurer, BadRequest for an
\* administrator); a request that is not answered Ok changes no row.
C20_ToggleOnlyByOtherAdmin ==
    [][/\ \A p \in Procs :
             (pc[p] = "idle" /\ pc'[p] = "tog_update")
             => /\ IsAdmin(loc'[p].req.user)
                /\ loc'[p].req.user.user_id # loc'[p].req.target
                /\ loc'[p].id = loc'[p].req.target
       /\ \A i \in Ids(users) :
             users'[i].is_active # users[i].is_active
             => /\ out'.op = "toggle_user_active"
                /\ out'.status = "Ok"
                /\ out'.req.target = i
                /\ IsAdmin(out'.req.user)
                /\ out'.req.user.user_id # i
                /\ \A j \in Ids(users) \ {i} : users'[j] = users[j]
       /\ (out'.op = "toggle_user_active"
             /\ out'.req.target = out'.req.user.user_id)
             => /\ out'.status = IF IsAdmin(out'.req.user) THEN "BadRequest"
                                 ELSE "Forbidden"
                /\ pc' = pc
                /\ users' = users
       /\ (out'.op = "toggle_user_active" /\ out'.status # "Ok")
             => users' = users]_vars

\* An administrator has just deactivated another user's account.
C20_Witness ==
    /\ out.op = "toggle_user_active"
    /\ out.status = "Ok"
    /\ IsAdmin(out.req.user)
    /\ out.req.target # out.req.user.user_id
    /\ ~users[out.req.target].is_active

\* C21: a request that updates or deletes a resource passes the handler's
\* check only for a caller whose row in the store is active at that time:
\* a caller deactivated since the token was issued is denied, although the
\* token is still valid.
C21_InactiveCallerDenied ==
    [][\A p \in Procs :
          (pc[p] = "idle" /\ pc'[p] \in {"upd_find", "del_write"})
              => users[loc'[p].req.user.user_id].is_active]_vars

\* The claims of a token hold the id and the email of the user they were
\* generated for, the time of generation, and an expiry 24 hours later.
ClaimsOf(c, user, at) ==
    /\ c.sub = user.id
    /\ c.email = user.email
    /\ c.iat = at
    /\ c.exp = c.iat + 24

\* C22: the claims of a token generated by a step contain the identity, the
\* email and the role of the user, issued_at = the time of the step and
\* expires_at = issued_at + 24 hours.
C22_ClaimsCarryRole ==
    [][(now' = now /\ IsSome(IssuedToken(out'))) =>
          LET c == Unwrap(IssuedToken(out'))
          IN \E i \in Ids(users') :
                /\ "role" \in DOMAIN c
                /\ c.role = users'[i].user_role
                /\ ClaimsOf(c, users'[i], now)]_vars

\* A stored hash that bcrypt cannot parse.
Malformed(hash) == hash \notin {Hash(pw) : pw \in LoginPasswords}

\* C23: a login for a row whose stored hash is malformed is answered
\* Unauthorized "Invalid credentials", with no token and no server error,
\* whatever password is supplied and whatever the other fields of the row.
C23_MalformedHashIsInvalidCredentials ==
    out.op = "login" =>
        \A i \in RowsWithEmail(users, out.req.email) :
            Malformed(users[i].password_hash) =>
                Visible(out) = <<"Unauthorized", "Invalid credentials", None, None>>

\* A login was answered for an active, verified row that stores the supplied
\* password itself in place of its hash.
C23_Witness ==
    /\ out.op = "login"
    /\ \E i \in RowsWithEmail(users, out.req.email) :
          /\ users[i].password_hash = <<"plaintext", out.req.password>>
          /\ users[i].is_active
          /\ users[i].is_email_verified

\* The role that each recognised string of a request names.
RecognisedRoles ==
    [r \in {"super_admin", "admin", "member", "treasurer"} |->
        IF r = "super_admin" THEN "SuperAdmin"
        ELSE IF r = "admin" THEN "Admin"
        ELSE IF r = "member" THEN "Member"
        ELSE "Treasurer"]

\* C24: the role of the row that a registration inserts is the role the
\* request names when user_role is one of the four recognised strings, and
\* Member when user_role is absent or is any other string; the role of every
\* row is one of the four.
C24_PersistedRole ==
    /\ \A i \in Ids(users) : users[i].user_role \in UserRole
    /\ (out.op = "register" /\ out.status = "Created") =>
          users[Len(users)].user_role =
             IF scn.user_role # None /\ scn.user_role[1] \in DOMAIN RecognisedRoles
             THEN RecognisedRoles[scn.user_role[1]]
             ELSE "Member"

\* Registrations inserted a row for a request naming "treasurer" and a row
\* for a request naming a role that is not recognised.
C24_Witness ==
    /\ out.op = "register"
    /\ out.status = "Created"
    /\ scn.user_role = <<"owner">>
    /\ \E i \in Ids(users) : users[i].user_role = "Treasurer"

\* C25: of the verify_email requests made with one code, handled
\* concurrently or not, at most one performs the UPDATE and is answered Ok
\* with its welcome email: a request never succeeds with a code that another
\* request has succeeded with.
C25_ConcurrentVerifyOnce ==
    [][\A p \in Procs :
          (pc[p] = "ver_update" /\ pc'[p] = "idle" /\ out'.status = "Ok")
              => loc[p].req.code \notin consumed]_vars

\* resend_verification was answered that the email could not be sent.
ResendFailed(response) ==
    /\ response.op = "resend_verification"
    /\ response.status = "InternalServerError"

\* C26: when resend_verification is answered with the error because the email
\* could not be sent, the row already holds the new code, which was never
\* delivered, and no row holds a code that was delivered to the address
\* before; a verify_email that follows with a code delivered before is
\* answered "Invalid verification code" and never reaches its UPDATE.
C26_FailedResendSupersedes ==
    [][/\ \A p \in Procs :
             (pc[p] = "res_update" /\ pc'[p] = "idle" /\ ResendFailed(out'))
             => LET i == loc[p].id
                    before == scn.delivered[users[i].email]
                IN /\ users'[i].email_verification_code = Unwrap(out'.mail).code
                   /\ Unwrap(users'[i].email_verification_code) \notin before
                   /\ scn'.delivered = scn.delivered
                   /\ \A c \in before : RowsWithCode(users', c) = {}
       /\ ResendFailed(out) =>
             /\ (out'.op = "verify_email" /\ pc' = pc
                    /\ out'.req.code \in scn.delivered[out.req.email])
                   => /\ out'.status = "BadRequest"
                      /\ out'.message = "Invalid verification code"
             /\ \A p \in Procs :
                   (pc[p] = "idle" /\ pc'[p] = "ver_update")
                      => loc'[p].req.code \notin scn.delivered[out.req.email]]_vars

\* resend_verification has just failed to send the new code to an address
\* that a code was delivered to before, within the 24 hours of that code.
C26_Witness ==
    /\ ResendFailed(out)
    /\ scn.delivered[out.req.email] # {}
    /\ now < 24
    /\ \E i \in RowsWithEmail(users, out.req.email) :
          /\ IsSome(users[i].email_verification_code)
          /\ Unwrap(users[i].email_verification_code)
                \notin scn.delivered[out.req.email]

\* C27: with requests handled concurrently, after every step each row has
\* email_verification_code and email_verification_expires_at both NULL or
\* both set, and the row that verify_email finds by its code has an expiry.
C27_CodeAndExpiryPaired ==
    [][/\ \A i \in Ids(users') :
             IsSome(users'[i].email_verification_code)
                <=> IsSome(users'[i].email_verification_expires_at)
       /\ \A p \in Procs :
             (pc[p] = "idle" /\ pc'[p] = "ver_update")
                => IsSome(users[loc'[p].id].email_verification_expires_at)]_vars

\* A row that verify_email marked verified was given a new code and expiry
\* by a resend_verification that had read it before.
C27_Witness ==
    \E i \in Ids(users) :
        /\ users[i].is_email_verified
        /\ IsSome(users[i].email_verification_code)
        /\ IsSome(users[i].email_verification_expires_at)

\* The columns of a row that are written only when the row is created.
Identity(row) == <<row.id, row.email, row.password_hash, row.user_role>>

\* C28: no step of register, login, verify_email, resend_verification or
\* toggle_user_active changes the id, email, password_hash or role of a row
\* that exists, and the step of a login changes no column of any row.
C28_IdentityFrame ==
    [][/\ \A i \in Ids(users) :
             /\ i \in Ids(users')
             /\ Identity(users'[i]) = Identity(users[i])
       /\ out'.op = "login" => users' = users]_vars

\* An administrator has just activated the account of a Member whose email
\* was verified before: the row is still that Member's.
C28_Witness ==
    /\ out.op = "toggle_user_active"
    /\ out.status = "Ok"
    /\ users[out.req.target].is_active
    /\ users[out.req.target].is_email_verified
    /\ Identity(users[out.req.target])
          = <<out.req.target, "b@x.com", Hash("secret1"), "Member">>

\* C29: the UPDATE of toggle_active writes to the row the negation of the
\* is_active that find_by_id read and changes no other column and no other
\* row; with requests handled one after the other the value read is the
\* row's value at the UPDATE, so that each toggle negates is_active and two
\* toggles restore it; a toggle for an id that no row has is answered
\* NotFound, never reaches the UPDATE and changes nothing.
C29_ToggleNegates ==
    [][/\ \A p \in Procs :
             (pc[p] = "tog_update" /\ pc'[p] = "idle")
             => LET i == loc[p].id
                IN /\ loc[p].is_active = users[i].is_active
                   /\ users'[i].is_active = ~loc[p].is_active
                   /\ users' = [users EXCEPT ![i].is_active = ~users[i].is_active]
       /\ \A p \in Procs :
             (pc[p] = "idle" /\ pc'[p] = "tog_update")
                => loc'[p].req.target \in Ids(users)
       /\ (out'.op = "toggle_user_active" /\ out'.req.target \notin Ids(users)
             /\ IsAdmin(out'.req.user))
             => /\ out'.status = "NotFound"
                /\ pc' = pc
                /\ users' = users]_vars

\* An administrator has just activated the account of a user whose email is
\* not verified.
C29_Witness ==
    /\ out.op = "toggle_user_active"
    /\ out.status = "Ok"
    /\ users[out.req.target].is_active
    /\ ~users[out.req.target].is_email_verified

\* The rows of the user who registered without the is_active flag.
Unflagged(us) == RowsWithEmail(us, "b@x.com")

\* C30: the row of a user who registers without the is_active flag is
\* created inactive; while it is inactive, a login with its credentials is
\* answered "Account is not active", whether the email is verified or not;
\* the row becomes active only in the UPDATE of a toggle_user_active
\* requested by an Admin or SuperAdmin who is another user; a login with the
\* credentials of the active, verified row is answered Ok with a token.
C30_InactiveUntilToggled ==
    [][/\ \A i \in Unflagged(users') \ Ids(users) : ~users'[i].is_active
       /\ \A i \in Unflagged(users) :
             /\ (out'.op = "login" /\ out'.req.email = users[i].email
                    /\ PasswordMatches(users[i], out'.req.password))
                   => IF ~users[i].is_active
                      THEN /\ out'.status = "Forbidden"
                           /\ out'.message = "Account is not active"
                           /\ out'.token = None
                      ELSE users[i].is_email_verified
                              => /\ out'.status = "Ok"
                                 /\ IsSome(out'.token)
                                 /\ Unwrap(out'.token).sub = i
             /\ (~users[i].is_active /\ users'[i].is_active)
                   => /\ out'.op = "toggle_user_active"
                      /\ out'.status = "Ok"
                      /\ out'.req.target = i
                      /\ out'.req.user.user_id # i
                      /\ IsAdmin(out'.req.user)]_vars

\* The user who registered without the flag has just logged in: the email
\* was verified and an administrator activated the account.
C30_Witness ==
    /\ out.op = "login"
    /\ out.status = "Ok"
    /\ out.req.email = "b@x.com"
    /\ \E i \in Unflagged(users) :
          /\ users[i].is_active
          /\ users[i].is_email_verified
          /\ users[i].user_role = "Member"
====
